---- MODULE Spec2Model ----
(***************************************************************************)
(* Model of the browser video editor: the Timeline component               *)
(* (src/src/components/Timeline.tsx), its parent EnhancedVideoEditor       *)
(* (src/src/components/EnhancedVideoEditor.tsx) with the processing run of *)
(* trimVideo, and the two translators from edit options to engine          *)
(* arguments (trimVideo's args, FFmpegVideoEditor.processVideo).           *)
(*                                                                         *)
(* Numbers.  JavaScript numbers are modelled as exact integers in small    *)
(* units: times in milliseconds, percentages in thousandths of a percent   *)
(* (100% = 100000).  The durations (multiples of 100 ms) and the track     *)
(* grid are chosen so that every division of the code is exact.  NaN and  *)
(* the two infinities are distinguished values with the IEEE-754           *)
(* behaviour the code relies on (Math.max/Math.min propagate NaN,          *)
(* comparisons with NaN are false).                                        *)
(***************************************************************************)
EXTENDS Integers, Sequences, FiniteSets, TLC

\* ------------------------------------------------------------------ bounds
\* Width of the timeline track in pointer-grid cells (rect.width).
TrackWidth == 2
\* How far outside the track, in grid cells, the pointer is moved.
Overshoot == 1
\* Pending requestAnimationFrame callbacks the model keeps at once.
MaxPending == 1
\* Processing runs started in one editing session.
MaxRuns == 2
\* Pointer moves of one burst, between two animation frames.
MaxBurst == 2
\* Process requests made before the engine is initialized.
MaxEarly == 1
\* Remote calls issued by the API routes.
MaxRemoteCalls == 5

\* --------------------------------------------------------- program numbers
\* The minimum distance of the handles the Timeline enforces, 0.1 s, in ms.
MinGapMs == 100
\* The minimum distance the editor enforces, 1 (percent), in 1/1000 percent.
OnePct == 1000
\* 100 (percent) in 1/1000 percent.
Pct100 == 100000

\* Media durations (ms) a video of the session can have.
Durations == {20000}

\* IEEE-754 special values.
NaN == -999999999
PosInf == 999999999
NegInf == -999999998

\* ------------------------------------------------------- JavaScript numbers
IsNumber(x) == x # NaN /\ x # PosInf /\ x # NegInf

\* Math.max(a, b)
JsMax(a, b) == IF a = NaN \/ b = NaN THEN NaN ELSE IF a >= b THEN a ELSE b

\* Math.min(a, b)
JsMin(a, b) == IF a = NaN \/ b = NaN THEN NaN ELSE IF a <= b THEN a ELSE b

\* a < b
JsLt(a, b) == a # NaN /\ b # NaN /\ a < b

\* a + k for a finite k
JsAdd(a, k) == IF IsNumber(a) THEN a + k ELSE a

\* (time / duration) * 100: a percentage from a time
PercentageOf(time, dur) ==
    IF time = NaN \/ dur = NaN THEN NaN
    ELSE IF dur = 0 THEN (IF time = 0 THEN NaN ELSE IF time > 0 THEN PosInf ELSE NegInf)
    ELSE IF ~IsNumber(time) THEN time
    ELSE (time * 1000) \div (dur \div 100)

\* A time from a percentage, cut to whole seconds.
TimeOf_wholeSeconds(pct, dur) ==
    IF pct = NaN \/ dur = NaN THEN NaN
    ELSE IF ~IsNumber(pct) THEN (IF dur = 0 THEN NaN ELSE pct)
    ELSE (((pct * (dur \div 100)) \div 1000) \div 1000) * 1000

\* (pct / 100) * duration: a time from a percentage
TimeOf(pct, dur) ==
    IF pct = NaN \/ dur = NaN THEN NaN
    ELSE IF ~IsNumber(pct) THEN (IF dur = 0 THEN NaN ELSE pct)
    ELSE (pct * (dur \div 100)) \div 1000

\* ------------------------------------------------------------------- state
VARIABLES
    duration,         \* EnhancedVideoEditor: useState duration, in ms (0 until known)
    editOptions,      \* EnhancedVideoEditor: useState editOptions (startTime/endTime are percentages)
    currentTime,      \* EnhancedVideoEditor: useState currentTime, the displayed playhead
    videoTime,        \* videoRef.current.currentTime, the media element's own position
    isDragging,       \* Timeline: useState isDragging: "none" | "start" | "end" | "current"
    rafQueue,         \* callbacks passed to requestAnimationFrame and not yet run, oldest first
    buttonDown,       \* the pointer button is held
    lastPointerEvent, \* kind of the last pointer event delivered: "down", "click", "move", "up", "upOutside"
    ffmpegLoaded,     \* ffmpegRef.current is set
    processing,       \* EnhancedVideoEditor: useState processing
    pc,               \* where the trimVideo call in flight is suspended ("idle" when none is)
    earlyRequests,    \* process requests made while ffmpegRef.current was still unset
    videoBlob,        \* EnhancedVideoEditor: useState videoBlob ("null", or what the blob holds)
    loading,          \* EnhancedVideoEditor: loadVideo is in flight (setLoading)
    runs,             \* per run started: its closure variable currentProgress and whether its interval is set
    options,          \* the request body posted to the process route: <<>> or <<record>>
    args,             \* translator output: the argument list trimVideo builds
    qualityArgs,      \* translator output: the argument list of the trimVideo with quality flags
    command,          \* translator output: the calls processVideo makes on the command builder
    reinvoked,        \* history of the translators' invocations: see Invoked
    api,              \* the API routes: last request, remote calls issued, last response, temp directory
    home,             \* Home and VideoList: the displayed videos, deletingId, the deletes in flight
    server,           \* the process route: overlapping requests and the files of the temp directory
    reference         \* the trim range of a reference that applies every pointer move at once

vars == <<duration, editOptions, currentTime, videoTime, isDragging, rafQueue, buttonDown,
          lastPointerEvent, ffmpegLoaded, processing, pc, earlyRequests, videoBlob, loading, runs,
          options, args, qualityArgs, command, reinvoked, api, home, server, reference>>

timelineVars == <<isDragging, rafQueue, buttonDown, lastPointerEvent>>
runVars == <<ffmpegLoaded, processing, pc, runs, earlyRequests, videoBlob, loading>>
translatorVars == <<options, args, qualityArgs, command, reinvoked, api, home, server>>

\* The defaults of useState(editOptions), EnhancedVideoEditor.tsx:38-46.
\* volume in percent, fades in ms, speed in tenths.
DefaultEditOptions ==
    [startTime |-> 0, endTime |-> Pct100, volume |-> 100, fadeIn |-> 0, fadeOut |-> 0,
     speed |-> 10, quality |-> "medium"]

\* Pointer positions (mouseX = e.clientX - rect.left) on the grid, outside the track included.
PointerXs == (0 - Overshoot) .. (TrackWidth + Overshoot)
\* Positions inside the track element.
TrackXs == 0 .. TrackWidth

\* (mouseX / rect.width) * 100, then (position / 100) * duration
getTimeFromPosition(x, dur) == (x * dur) \div TrackWidth

\* Timeline's getPositionFromTime(time): (time / duration) * 100
getPositionFromTime(time, dur) == PercentageOf(time, dur)

\* The props the Timeline gets from the render of its parent.
startTimeProp(ed, dur) == TimeOf(ed.startTime, dur)
endTimeProp(ed, dur) == TimeOf(ed.endTime, dur)

\* Timeline's prop disabled
disabled == processing.isProcessing

\* The editor is on screen: the component returns the 'Loading video...' spinner
\* while (loading || !videoUrl), and videoUrl is set together with videoBlob.
EditorRendered == ~loading /\ videoBlob # "null"

\* ------------------------------------------------------ EnhancedVideoEditor
\* Assigning videoRef.current.currentTime: a non-finite value throws a TypeError.
SeekThrows(t) == ~IsNumber(t)

\* A handleSeek that takes the time as it comes.
handleSeekTime_unconstrained(time, ed, dur) == time

\* handleSeek(time): the constrained time, from the editOptions and duration of the render.
handleSeekTime(time, ed, dur) ==
    JsMax(startTimeProp(ed, dur), JsMin(time, endTimeProp(ed, dur)))

\* handleStartTimeChange(time): the new editOptions.startTime, from the closure's values.
handleStartTimeChangePct(time, closure) ==
    JsMax(0, JsMin(PercentageOf(time, closure.duration), JsAdd(closure.endTime, 0 - OnePct)))

\* handleEndTimeChange(time): the new editOptions.endTime, from the closure's values.
handleEndTimeChangePct(time, closure) ==
    JsMax(JsAdd(closure.startTime, OnePct), JsMin(PercentageOf(time, closure.duration), Pct100))

\* handleTimeUpdate: the constrained time shown as the playhead.
handleTimeUpdateTime(video, ed, dur) ==
    JsMax(startTimeProp(ed, dur), JsMin(video, endTimeProp(ed, dur)))

\* ----------------------------------------------------------------- Timeline
\* The time a start-handle callback passes to onStartTimeChange.
startNewTime(cb) ==
    JsMax(0, JsMin(cb.time, JsAdd(TimeOf(cb.endTime, cb.duration), 0 - MinGapMs)))

\* The time an end-handle callback passes to onEndTimeChange.
endNewTime(cb) ==
    JsMax(JsAdd(TimeOf(cb.startTime, cb.duration), MinGapMs), JsMin(cb.time, cb.duration))

\* What a requestAnimationFrame callback does is fixed when the pointer moves: its
\* closure holds the pointer's time and the props and handlers of that render, so the
\* time it passes on (newTime) and the percentage the handler stores (pct) are
\* constants of the callback.  The test isDragging === 'start' inside the callback
\* reads the closure's constant as well, and is true.
Callback(cb) ==
    IF cb.handle = "start"
    THEN [handle |-> "start", newTime |-> startNewTime(cb),
          pct |-> handleStartTimeChangePct(startNewTime(cb), cb)]
    ELSE [handle |-> "end", newTime |-> endNewTime(cb),
          pct |-> handleEndTimeChangePct(endNewTime(cb), cb)]

\* One callback run on the state st = [startTime, endTime, video]: the functional
\* update of editOptions, and the media element moved when it is outside.
RunCallback(c, st) ==
    IF c.handle = "start"
    THEN [st EXCEPT !.startTime = c.pct,
                    !.video = IF JsLt(st.video, c.newTime) THEN c.newTime ELSE st.video]
    ELSE [st EXCEPT !.endTime = c.pct,
                    !.video = IF JsLt(c.newTime, st.video) THEN c.newTime ELSE st.video]

RECURSIVE RunCallbacks(_, _)
RunCallbacks(q, st) ==
    IF q = <<>> THEN st ELSE RunCallbacks(Tail(q), RunCallback(Head(q), st))

\* setIsDragging(null) of handleMouseUp, the track's onMouseUp
handleMouseUp(d) == "none"

\* A document listener that leaves the drag session as it is.
handleGlobalMouseUp_ignored(d) == d

\* handleGlobalMouseUp, the document listener registered while isDragging
handleGlobalMouseUp(d) == IF d # "none" THEN "none" ELSE d

\* A handleMouseDown without its test of disabled.
handleMouseDown_always(d, handle) == handle

\* handleMouseDown(e, handle)
handleMouseDown(d, handle) == IF disabled THEN d ELSE handle

\* The closure a render of the Timeline and of its parent gives to a callback.
Closure(handle, time) ==
    [handle |-> handle, time |-> time, startTime |-> editOptions.startTime,
     endTime |-> editOptions.endTime, duration |-> duration]

\* The trim range of an edit record.
TrimRange(ed) == [startTime |-> ed.startTime, endTime |-> ed.endTime]

\* The reference: the same handlers, each pointer move applied when it is delivered,
\* on the trim range the earlier moves have produced.
ApplyAtOnce(handle, time) ==
    LET c == Callback([handle |-> handle, time |-> time, startTime |-> reference.startTime,
                       endTime |-> reference.endTime, duration |-> duration])
    IN IF handle = "start" THEN [reference EXCEPT !.startTime = c.pct]
       ELSE [reference EXCEPT !.endTime = c.pct]

\* A handleSeek that moves the media element and leaves the playhead to the next
\* timeupdate event.
HandleSeek_elementOnly(time) ==
    LET constrainedTime == handleSeekTime(time, editOptions, duration)
    IN IF SeekThrows(constrainedTime)
       THEN UNCHANGED <<videoTime, currentTime>>
       ELSE videoTime' = constrainedTime /\ UNCHANGED currentTime

\* handleSeek(time) of the current render: the media element and the playhead both
\* get the constrained time; the assignment to the element throws on a non-finite
\* time, before setCurrentTime is reached.
HandleSeek(time) ==
    LET constrainedTime == handleSeekTime(time, editOptions, duration)
    IN IF SeekThrows(constrainedTime)
       THEN UNCHANGED <<videoTime, currentTime>>
       ELSE videoTime' = constrainedTime /\ currentTime' = constrainedTime

\* ------------------------------------------------------------ pointer events
\* mousedown on the start handle, the end handle or the playhead marker.  When the
\* Timeline is disabled handleMouseDown returns before stopPropagation and the event
\* reaches handleTimelineClick, which returns at once as well.
PointerDownHandle(handle) ==
    /\ EditorRendered
    /\ ~buttonDown
    /\ isDragging' = handleMouseDown(isDragging, handle)
    /\ buttonDown' = TRUE
    /\ lastPointerEvent' = "down"
    /\ UNCHANGED <<duration, editOptions, currentTime, videoTime, rafQueue, reference>>
    /\ UNCHANGED runVars /\ UNCHANGED translatorVars

\* mousedown on the track body at x: handleTimelineClick.
PointerDownTrack(x) ==
    /\ EditorRendered
    /\ ~buttonDown
    /\ buttonDown' = TRUE
    /\ lastPointerEvent' = "click"
    /\ IF disabled \/ isDragging # "none"
       THEN UNCHANGED <<videoTime, currentTime>>
       ELSE HandleSeek(getTimeFromPosition(x, duration))
    /\ UNCHANGED <<duration, editOptions, isDragging, rafQueue, reference>>
    /\ UNCHANGED runVars /\ UNCHANGED translatorVars

\* mousemove at x while a drag is active: handleDocumentMouseMove (the document
\* listener; the track's onMouseMove passes the same event to the same function, and
\* what it does twice it does with the same values).
PointerMoveBounded(x, maxPending) ==
    /\ EditorRendered
    /\ isDragging # "none"
    /\ LET time == getTimeFromPosition(x, duration)
       IN IF isDragging = "current"
          THEN /\ HandleSeek(JsMax(startTimeProp(editOptions, duration),
                                   JsMin(time, endTimeProp(editOptions, duration))))
               /\ UNCHANGED <<rafQueue, reference>>
          ELSE /\ Len(rafQueue) < maxPending
               /\ rafQueue' = Append(rafQueue, Callback(Closure(isDragging, time)))
               /\ reference' = ApplyAtOnce(isDragging, time)
               /\ UNCHANGED <<videoTime, currentTime>>
    /\ lastPointerEvent' = "move"
    /\ UNCHANGED <<duration, editOptions, isDragging, buttonDown>>
    /\ UNCHANGED runVars /\ UNCHANGED translatorVars

PointerMove(x) == PointerMoveBounded(x, MaxPending)

\* mouseup: inside the track, the track's onMouseUp (handleMouseUp) and then the
\* document listener; outside the track, the document listener alone.
PointerUp(inside) ==
    /\ EditorRendered
    /\ buttonDown
    /\ buttonDown' = FALSE
    /\ isDragging' = IF inside THEN handleGlobalMouseUp(handleMouseUp(isDragging))
                     ELSE handleGlobalMouseUp(isDragging)
    /\ lastPointerEvent' = IF inside THEN "up" ELSE "upOutside"
    /\ UNCHANGED <<duration, editOptions, currentTime, videoTime, rafQueue, reference>>
    /\ UNCHANGED runVars /\ UNCHANGED translatorVars

\* An animation frame: every callback requested so far runs, oldest first.
AnimationFrame ==
    /\ rafQueue # <<>>
    /\ LET st == RunCallbacks(rafQueue, [startTime |-> editOptions.startTime,
                                         endTime |-> editOptions.endTime,
                                         video |-> videoTime])
       IN /\ editOptions' = [editOptions EXCEPT !.startTime = st.startTime,
                                                 !.endTime = st.endTime]
          /\ videoTime' = st.video
    /\ rafQueue' = <<>>
    /\ UNCHANGED <<duration, currentTime, isDragging, buttonDown, lastPointerEvent, reference>>
    /\ UNCHANGED runVars /\ UNCHANGED translatorVars

\* ------------------------------------------------------------ media element
\* The element's timeupdate event: handleTimeUpdate.
TimeUpdate ==
    /\ EditorRendered
    /\ currentTime' = handleTimeUpdateTime(videoTime, editOptions, duration)
    /\ UNCHANGED <<duration, editOptions, videoTime, reference>>
    /\ UNCHANGED timelineVars /\ UNCHANGED runVars /\ UNCHANGED translatorVars

\* Playback, or the element's own controls, move the media position to x of the track.
VideoAdvance(x) ==
    /\ EditorRendered
    /\ duration > 0
    /\ videoTime' = getTimeFromPosition(x, duration)
    /\ UNCHANGED <<duration, editOptions, currentTime, reference>>
    /\ UNCHANGED timelineVars /\ UNCHANGED runVars /\ UNCHANGED translatorVars

\* The element's loadedmetadata event: handleVideoLoaded, when video.durationInMs
\* gave no duration at mount.
VideoLoaded(d) ==
    /\ EditorRendered
    /\ duration = 0
    /\ duration' = d
    /\ editOptions' = [editOptions EXCEPT !.endTime = Pct100]
    /\ reference' = [reference EXCEPT !.endTime = Pct100]
    /\ UNCHANGED <<currentTime, videoTime>>
    /\ UNCHANGED timelineVars /\ UNCHANGED runVars /\ UNCHANGED translatorVars

\* handleOptionChange('startTime' | 'endTime', value) of the editors with range
\* inputs: the value is stored as it comes.
HandleOptionChange(option, value) ==
    /\ editOptions' = IF option = "startTime" THEN [editOptions EXCEPT !.startTime = value]
                      ELSE [editOptions EXCEPT !.endTime = value]
    /\ reference' = TrimRange(editOptions')
    /\ UNCHANGED <<duration, currentTime, videoTime>>
    /\ UNCHANGED timelineVars /\ UNCHANGED runVars /\ UNCHANGED translatorVars

\* A Reset All that is enabled during a run and drops the run in flight.
ResetAll_aborts ==
    /\ editOptions' = DefaultEditOptions
    /\ reference' = TrimRange(DefaultEditOptions)
    /\ processing' = [isProcessing |-> FALSE, progress |-> 0, stage |-> ""]
    /\ pc' = "idle"
    /\ UNCHANGED <<duration, currentTime, videoTime, ffmpegLoaded, runs, earlyRequests, videoBlob, loading>>
    /\ UNCHANGED timelineVars /\ UNCHANGED translatorVars

\* The Reset All button.
ResetAll ==
    /\ EditorRendered
    /\ ~processing.isProcessing
    /\ editOptions' = DefaultEditOptions
    /\ reference' = TrimRange(DefaultEditOptions)
    /\ UNCHANGED <<duration, currentTime, videoTime>>
    /\ UNCHANGED timelineVars /\ UNCHANGED runVars /\ UNCHANGED translatorVars

\* ------------------------------------------------------- the processing run
\* Fractions the engine reports through its progress event, in 1/1000
\* (0.05, 0.1 and 0.95).
EngineFractions == {50, 100, 950}
\* Outcomes of Math.random() * 5 in the fallback timer, in tenths of a percent.
TickIncrements == {0, 49}

\* Math.round of a value given in tenths.
RoundTenths(t) == (t + 5) \div 10

\* Math.round(progress * 100) of a fraction given in 1/1000.
progressPercent(p) == (p + 5) \div 10

\* The listener of ffmpeg.on('progress'): currentProgress = Math.max(currentProgress,
\* progressPercent), in tenths.
listenerProgress(cp, p) ==
    IF cp >= progressPercent(p) * 10 THEN cp ELSE progressPercent(p) * 10

\* The fallback timer: Math.min(Math.round(currentProgress), 85)
roundedProgress(cp) == IF RoundTenths(cp) <= 85 THEN RoundTenths(cp) ELSE 85

\* The progress the 'Finalizing...' update sets after exec has returned.
FinalizingProgress == 90

\* A catch block that resets the progress and the label and keeps isProcessing.
ErrorState_stuck == [isProcessing |-> TRUE, progress |-> 0, stage |-> "Error occurred"]

\* The catch block of trimVideo.
ErrorState == [isProcessing |-> FALSE, progress |-> 0, stage |-> "Error occurred"]

\* The awaited steps of trimVideo, as values of pc.
AwaitedSteps == {"writeFile", "exec", "readFile", "deleteInput", "deleteOutput"}

\* A button that stays enabled while a run is processing.
TrimVideoEnabled_whileProcessing == ffmpegLoaded

\* The Trim Video button (and the Re-process Video button, which has the same
\* expression) is enabled: not (processing.isProcessing || !ffmpegRef.current).
TrimVideoEnabled == ~processing.isProcessing /\ ffmpegLoaded

\* trimVideo returns at its first test: if (!ffmpegRef.current || !videoBlob) return.
trimVideoReturns_never == FALSE

trimVideoReturns == ~ffmpegLoaded \/ videoBlob = "null"

\* The processing state when trimVideo has run to its first await, ffmpeg.writeFile.
trimVideoEntered == [isProcessing |-> TRUE, progress |-> 10, stage |-> "Loading video..."]

\* How loadVideo can end: the response is the media; the response is an error
\* response (response.ok is not tested, its body becomes the blob); fetch or
\* response.blob() rejects.
LoadOutcomes == {"media", "errorBody", "rejected"}

\* loadVideo ends: with a response, setVideoBlob and setVideoUrl; with a rejection,
\* the catch block logs to the console; in both cases finally setLoading(false).
LoadVideoEnds(outcome) ==
    /\ loading
    /\ loading' = FALSE
    /\ videoBlob' = IF outcome = "rejected" THEN videoBlob ELSE outcome
    /\ UNCHANGED <<ffmpegLoaded, processing, pc, runs, earlyRequests>>
    /\ UNCHANGED <<duration, editOptions, currentTime, videoTime, reference>>
    /\ UNCHANGED timelineVars /\ UNCHANGED translatorVars

\* initFFmpeg: ffmpeg.load() has resolved and ffmpegRef.current is set.
InitFFmpegDone ==
    /\ ~ffmpegLoaded
    /\ ffmpegLoaded' = TRUE
    /\ UNCHANGED <<processing, pc, runs>>
    /\ UNCHANGED <<duration, editOptions, currentTime, videoTime, reference, earlyRequests, videoBlob, loading>>
    /\ UNCHANGED timelineVars /\ UNCHANGED translatorVars

\* The Trim Video button (disabled while processing.isProcessing or without
\* ffmpegRef.current): trimVideo up to its first await, ffmpeg.writeFile.
TrimVideoStart ==
    /\ EditorRendered
    /\ TrimVideoEnabled
    /\ Len(runs) < MaxRuns
    /\ processing' = trimVideoEntered
    /\ pc' = "writeFile"
    /\ UNCHANGED <<ffmpegLoaded, runs>>
    /\ UNCHANGED <<duration, editOptions, currentTime, videoTime, reference, earlyRequests, videoBlob, loading>>
    /\ UNCHANGED timelineVars /\ UNCHANGED translatorVars

\* A process request while ffmpegRef.current or videoBlob is unset (the buttons are
\* disabled or not on screen then; the request reaches trimVideo by a call of the
\* handler): trimVideo returns at
\* its first test, nothing is stored for later.
EarlyRequest ==
    /\ ~ffmpegLoaded \/ videoBlob = "null"
    /\ earlyRequests < MaxEarly
    /\ earlyRequests' = earlyRequests + 1
    /\ IF trimVideoReturns
       THEN UNCHANGED <<processing, pc>>
       ELSE processing' = trimVideoEntered /\ pc' = "writeFile"
    /\ UNCHANGED <<ffmpegLoaded, runs>>
    /\ UNCHANGED <<duration, editOptions, currentTime, videoTime, reference, videoBlob, loading>>
    /\ UNCHANGED timelineVars /\ UNCHANGED translatorVars

\* writeFile has resolved: the args are built, the progress listener is registered
\* with currentProgress = 20, the interval is set, and trimVideo awaits ffmpeg.exec.
WriteFileDone ==
    /\ pc = "writeFile"
    /\ runs' = Append(runs, [currentProgress |-> 200, interval |-> TRUE])
    /\ processing' = [processing EXCEPT !.progress = 20, !.stage = "Processing video..."]
    /\ pc' = "exec"
    /\ UNCHANGED ffmpegLoaded
    /\ UNCHANGED <<duration, editOptions, currentTime, videoTime, reference, earlyRequests, videoBlob, loading>>
    /\ UNCHANGED timelineVars /\ UNCHANGED translatorVars

\* The engine emits a progress event while exec runs: every listener registered in
\* the session is called, in the order of registration; each raises its own
\* currentProgress and stores its rounded value.
EngineProgress(p) ==
    /\ pc = "exec"
    /\ runs' = [i \in DOMAIN runs |->
                  [runs[i] EXCEPT !.currentProgress = listenerProgress(@, p)]]
    /\ processing' = [processing EXCEPT
                        !.progress = RoundTenths(runs'[Len(runs)].currentProgress),
                        !.stage = "Processing video... N%"]
    /\ UNCHANGED <<ffmpegLoaded, pc>>
    /\ UNCHANGED <<duration, editOptions, currentTime, videoTime, reference, earlyRequests, videoBlob, loading>>
    /\ UNCHANGED timelineVars /\ UNCHANGED translatorVars

\* The interval of run i fires.
TimerTick(i, inc) ==
    /\ i \in DOMAIN runs
    /\ runs[i].interval
    /\ runs[i].currentProgress < 850
    /\ runs' = [runs EXCEPT ![i].currentProgress = @ + inc]
    /\ processing' = [processing EXCEPT
                        !.progress = roundedProgress(runs'[i].currentProgress),
                        !.stage = "Processing video... N%"]
    /\ UNCHANGED <<ffmpegLoaded, pc>>
    /\ UNCHANGED <<duration, editOptions, currentTime, videoTime, reference, earlyRequests, videoBlob, loading>>
    /\ UNCHANGED timelineVars /\ UNCHANGED translatorVars

\* exec has resolved: the interval is cleared, 'Finalizing...' is shown and
\* trimVideo awaits ffmpeg.readFile.
ExecDone ==
    /\ pc = "exec"
    /\ runs' = [runs EXCEPT ![Len(runs)].interval = FALSE]
    /\ processing' = [processing EXCEPT !.progress = FinalizingProgress, !.stage = "Finalizing..."]
    /\ pc' = "readFile"
    /\ UNCHANGED ffmpegLoaded
    /\ UNCHANGED <<duration, editOptions, currentTime, videoTime, reference, earlyRequests, videoBlob, loading>>
    /\ UNCHANGED timelineVars /\ UNCHANGED translatorVars

\* readFile, then the first deleteFile, have resolved: nothing shown changes.
AwaitDone ==
    /\ pc \in {"readFile", "deleteInput"}
    /\ pc' = IF pc = "readFile" THEN "deleteInput" ELSE "deleteOutput"
    /\ UNCHANGED <<ffmpegLoaded, processing, runs>>
    /\ UNCHANGED <<duration, editOptions, currentTime, videoTime, reference, earlyRequests, videoBlob, loading>>
    /\ UNCHANGED timelineVars /\ UNCHANGED translatorVars

\* The second deleteFile has resolved: 'Complete!' at 100, then the 500 ms delay.
DeleteOutputDone ==
    /\ pc = "deleteOutput"
    /\ processing' = [processing EXCEPT !.progress = 100, !.stage = "Complete!"]
    /\ pc' = "delay"
    /\ UNCHANGED <<ffmpegLoaded, runs>>
    /\ UNCHANGED <<duration, editOptions, currentTime, videoTime, reference, earlyRequests, videoBlob, loading>>
    /\ UNCHANGED timelineVars /\ UNCHANGED translatorVars

\* The delay is over: the processing state is reset.
DelayDone ==
    /\ pc = "delay"
    /\ processing' = [isProcessing |-> FALSE, progress |-> 0, stage |-> ""]
    /\ pc' = "idle"
    /\ UNCHANGED <<ffmpegLoaded, runs>>
    /\ UNCHANGED <<duration, editOptions, currentTime, videoTime, reference, earlyRequests, videoBlob, loading>>
    /\ UNCHANGED timelineVars /\ UNCHANGED translatorVars

\* An awaited step rejects: the catch block.
StepFails ==
    /\ pc \in AwaitedSteps
    /\ processing' = ErrorState
    /\ pc' = "idle"
    /\ UNCHANGED <<ffmpegLoaded, runs>>
    /\ UNCHANGED <<duration, editOptions, currentTime, videoTime, reference, earlyRequests, videoBlob, loading>>
    /\ UNCHANGED timelineVars /\ UNCHANGED translatorVars

\* ------------------------------------------------------------ the translators
\* A quotient of two integers as the fraction in lowest terms (volume / 100,
\* 1 / speed): <<numerator, denominator>>.
RECURSIVE GCD(_, _)
GCD(a, b) == IF b = 0 THEN a ELSE GCD(b, a % b)

Quotient(n, d) == IF n = 0 THEN <<0, 1>> ELSE <<n \div GCD(n, d), d \div GCD(n, d)>>

\* One element of an argument list or one call on the command builder: the flag (or
\* the method), its numeric value and the filters it carries.
Arg(flag, value, filters) == [flag |-> flag, value |-> value, filters |-> filters]

\* Filters as the code writes them into the filter string.
VolumeFilter(volume) == [name |-> "volume", factor |-> Quotient(volume, 100), st |-> 0, d |-> 0]
FadeInFilter(fadeIn) == [name |-> "fade=t=in", factor |-> <<1, 1>>, st |-> 0, d |-> fadeIn]
FadeOutFilter(st, fadeOut) == [name |-> "fade=t=out", factor |-> <<1, 1>>, st |-> st, d |-> fadeOut]
SetptsFilter(speed) == [name |-> "setpts", factor |-> Quotient(10, speed), st |-> 0, d |-> 0]
AtempoFilter(speed) == [name |-> "atempo", factor |-> Quotient(speed, 10), st |-> 0, d |-> 0]

\* A start offset that depends on the progress the session shows at the moment.
trimVideoFadeOutStart_progress(trimDuration, fadeOut) ==
    trimDuration - fadeOut + processing.progress

\* The start offset trimVideo writes into its fade-out filter.
trimVideoFadeOutStart(trimDuration, fadeOut) == trimDuration - fadeOut

\* The filters of trimVideo's '-vf' argument.
trimVideoFadeFilter(ed, trimDuration) ==
    (IF ed.fadeIn > 0 THEN <<FadeInFilter(ed.fadeIn)>> ELSE <<>>)
    \o (IF ed.fadeOut > 0
        THEN <<FadeOutFilter(trimVideoFadeOutStart(trimDuration, ed.fadeOut), ed.fadeOut)>>
        ELSE <<>>)

\* A volume argument written for amplification only.
trimVideoVolumeArgs_louderOnly(ed) ==
    IF ed.volume > 100 THEN <<Arg("-af", 0, <<VolumeFilter(ed.volume)>>)>> ELSE <<>>

\* The '-af' argument of trimVideo.
trimVideoVolumeArgs(ed) ==
    IF ed.volume # 100 THEN <<Arg("-af", 0, <<VolumeFilter(ed.volume)>>)>> ELSE <<>>

\* The '-filter:v' argument of trimVideo.
trimVideoSpeedArgs(ed) ==
    IF ed.speed # 10 THEN <<Arg("-filter:v", 0, <<SetptsFilter(ed.speed)>>)>> ELSE <<>>

\* The argument list trimVideo of EnhancedVideoEditor builds for ffmpeg.exec, from
\* the editOptions (percentages) and the duration of the render.
trimVideoArgs(ed, dur) ==
    LET startTime == TimeOf(ed.startTime, dur)
        endTime == TimeOf(ed.endTime, dur)
        trimDuration == endTime - startTime
    IN <<Arg("-i", 0, <<>>), Arg("-ss", startTime, <<>>), Arg("-t", trimDuration, <<>>),
         Arg("-c:v libx264", 0, <<>>), Arg("-c:a aac", 0, <<>>),
         Arg("-avoid_negative_ts make_zero", 0, <<>>)>>
       \o trimVideoVolumeArgs(ed)
       \o trimVideoSpeedArgs(ed)
       \o (IF (ed.fadeIn > 0 \/ ed.fadeOut > 0) /\ trimVideoFadeFilter(ed, trimDuration) # <<>>
           THEN <<Arg("-vf", 0, trimVideoFadeFilter(ed, trimDuration))>> ELSE <<>>)
       \o <<Arg("output.mp4", 0, <<>>)>>

\* handleProcessVideo: the request body, with startTime and endTime in seconds.
processOptions(ed, dur) ==
    [ed EXCEPT !.startTime = TimeOf(ed.startTime, dur), !.endTime = TimeOf(ed.endTime, dur)]

\* FFmpegVideoEditor.applyFadeEffects(fadeIn, fadeOut, duration): its video filters.
applyFadeEffects(fadeIn, fadeOut, dur) ==
    (IF fadeIn > 0 THEN <<FadeInFilter(fadeIn)>> ELSE <<>>)
    \o (IF fadeOut > 0 THEN <<FadeOutFilter(dur - fadeOut, fadeOut)>> ELSE <<>>)

\* qualitySettings of processVideo: crf and preset.
qualitySettings(quality) ==
    CASE quality = "low" -> [crf |-> 28, preset |-> "fast"]
      [] quality = "medium" -> [crf |-> 23, preset |-> "medium"]
      [] quality = "high" -> [crf |-> 18, preset |-> "slow"]

\* The flag that names a preset.
PresetFlag(preset) ==
    CASE preset = "fast" -> "-preset fast"
      [] preset = "medium" -> "-preset medium"
      [] preset = "slow" -> "-preset slow"

\* The addOptions call of processVideo: '-crf', '-preset' and '-movflags +faststart'.
processVideoQuality(o) ==
    <<Arg("-crf", qualitySettings(o.quality).crf, <<>>),
      Arg(PresetFlag(qualitySettings(o.quality).preset), 0, <<>>),
      Arg("-movflags +faststart", 0, <<>>)>>

\* The quality flags of the trimVideo that has them (the editor kept in
\* src/src/types/video.ts): '-crf' and '-preset'.
trimVideoQualityFlags(ed) ==
    CASE ed.quality = "low" -> <<Arg("-crf", 28, <<>>), Arg("-preset fast", 0, <<>>)>>
      [] ed.quality = "medium" -> <<Arg("-crf", 23, <<>>), Arg("-preset medium", 0, <<>>)>>
      [] ed.quality = "high" -> <<Arg("-crf", 18, <<>>), Arg("-preset slow", 0, <<>>)>>

\* The argument list that trimVideo builds: trim, codecs, quality flags, output.
trimVideoQualityArgs(ed, dur) ==
    LET startTime == TimeOf(ed.startTime, dur)
        endTime == TimeOf(ed.endTime, dur)
        trimDuration == endTime - startTime
    IN <<Arg("-i", 0, <<>>), Arg("-ss", startTime, <<>>), Arg("-t", trimDuration, <<>>),
         Arg("-c:v libx264", 0, <<>>), Arg("-c:a aac", 0, <<>>),
         Arg("-avoid_negative_ts make_zero", 0, <<>>)>>
       \o trimVideoQualityFlags(ed)
       \o <<Arg("output.mp4", 0, <<>>)>>

\* The start offset processVideo writes into its fade-out filter.
processVideoFadeOutStart(o) == 0

\* The fade filters of processVideo.
processVideoFadeFilters(o) ==
    (IF o.fadeIn > 0 THEN <<FadeInFilter(o.fadeIn)>> ELSE <<>>)
    \o (IF o.fadeOut > 0 THEN <<FadeOutFilter(processVideoFadeOutStart(o), o.fadeOut)>> ELSE <<>>)

\* A trim that seeks and never limits the length.
processVideoTrim_seekOnly(o) ==
    IF o.startTime > 0 \/ o.endTime > 0 THEN <<Arg("seekInput", o.startTime, <<>>)>> ELSE <<>>

\* The trim calls of processVideo.
processVideoTrim(o) ==
    IF o.startTime > 0 \/ o.endTime > 0
    THEN <<Arg("seekInput", o.startTime, <<>>)>>
         \o (IF o.endTime > o.startTime
             THEN <<Arg("duration", o.endTime - o.startTime, <<>>)>> ELSE <<>>)
    ELSE <<>>

\* The volume call of processVideo.
processVideoVolume(o) ==
    IF o.volume # 100 THEN <<Arg("audioFilters", 0, <<VolumeFilter(o.volume)>>)>> ELSE <<>>

\* The speed calls of processVideo.
processVideoSpeed(o) ==
    IF o.speed # 10
    THEN <<Arg("videoFilters", 0, <<SetptsFilter(o.speed)>>),
           Arg("audioFilters", 0, <<AtempoFilter(o.speed)>>)>>
    ELSE <<>>

\* FFmpegVideoEditor.processVideo: the calls made on the fluent-ffmpeg command, in order.
processVideo(o) ==
    processVideoTrim(o)
    \o processVideoVolume(o)
    \o (IF processVideoFadeFilters(o) # <<>>
        THEN <<Arg("videoFilters", 0, processVideoFadeFilters(o))>> ELSE <<>>)
    \o processVideoSpeed(o)
    \o <<Arg("videoCodec libx264", 0, <<>>)>>
    \o processVideoQuality(o)
    \o <<Arg("output", 0, <<>>)>>

\* Values of the sliders and of the quality selector (volume in percent, fades in
\* ms, speed in tenths), and trim ranges the timeline can be in.
Volumes == {0, 100, 150, 200}
FadeIns == {0, 2000}
FadeOuts == {0, 5000, 10000}
Speeds == {5, 10, 20}
Qualities == {"low", "medium", "high"}
TrimRanges == {<<0, 100000>>, <<25000, 75000>>, <<0, 25000>>}
TranslatorDurations == {20000, 120000}
\* Positions of the Start and End sliders of FFmpegVideoEditor (0 to 100 each, set
\* independently of one another), in 1/1000 percent.
SliderPcts == {0, 25000, 75000, 100000}

\* The history kept of the invocations: first holds the number of runs the session
\* had started when a translator was invoked for the first time; again is set when a
\* translator whose earlier output is at hand is invoked after a later run has started.
Invoked(output) ==
    [first |-> IF reinvoked.first = <<>> THEN <<Len(runs)>> ELSE reinvoked.first,
     again |-> reinvoked.again
               \/ (output # <<>> /\ reinvoked.first # <<>> /\ Len(runs) > reinvoked.first[1])]

\* trimVideo builds its argument list, for the first time or again.
BuildArgs ==
    /\ args' = trimVideoArgs(editOptions, duration)
    /\ reinvoked' = Invoked(args)
    /\ UNCHANGED <<options, qualityArgs, command, api, home, server>>
    /\ UNCHANGED <<duration, editOptions, currentTime, videoTime, reference>>
    /\ UNCHANGED timelineVars /\ UNCHANGED runVars

\* The trimVideo with quality flags builds its argument list, for the first time or
\* again.
BuildQualityArgs ==
    /\ qualityArgs' = trimVideoQualityArgs(editOptions, duration)
    /\ reinvoked' = Invoked(qualityArgs)
    /\ UNCHANGED <<options, args, command, api, home, server>>
    /\ UNCHANGED <<duration, editOptions, currentTime, videoTime, reference>>
    /\ UNCHANGED timelineVars /\ UNCHANGED runVars

\* handleProcessVideo of FFmpegVideoEditor posts the options to the process route.
\* That component keeps edit options of its own: its effect sliders and quality
\* selector have the ranges of EnhancedVideoEditor's and are read from editOptions;
\* its trim range comes from two range inputs, at s and e.
PostProcess ==
    /\ options = <<>>
    /\ \E s, e \in SliderPcts :
          options' = <<processOptions([editOptions EXCEPT !.startTime = s, !.endTime = e],
                                      duration)>>
    /\ UNCHANGED <<args, qualityArgs, command, reinvoked, api, home, server>>
    /\ UNCHANGED <<duration, editOptions, currentTime, videoTime, reference>>
    /\ UNCHANGED timelineVars /\ UNCHANGED runVars

\* The route hands the posted options to processVideo; the same body may be posted
\* again.
ProcessVideo ==
    /\ options # <<>>
    /\ command' = processVideo(options[1])
    /\ reinvoked' = Invoked(command)
    /\ UNCHANGED <<options, args, qualityArgs, api, home, server>>
    /\ UNCHANGED <<duration, editOptions, currentTime, videoTime, reference>>
    /\ UNCHANGED timelineVars /\ UNCHANGED runVars

\* ------------------------------------------------------------ the API routes
\* The routes that contact the remote file service: GET /api/videos (list),
\* GET /api/videos/[id] (metadata), DELETE /api/videos/[id], POST .../share,
\* POST /api/videos/upload and POST .../process.
ApiOps == {"list", "metadata", "delete", "share", "upload", "process"}

\* HTTP statuses of the responses; Pending while the process route awaits processVideo.
Pending == 0
StatusOk == 200
StatusNotAuthenticated == 401
StatusFailed == 500

\* The state of the routes before any request.
NoRequest ==
    [request |-> [op |-> "none", token |-> FALSE], calls |-> 0, response |-> Pending,
     tempDir |-> FALSE]

\* A gate that lets every request pass.
NotAuthenticated_never(token) == FALSE

\* if (!token) return NextResponse.json({success: false, error: 'Not authenticated'}, {status: 401})
NotAuthenticated(token) == ~token

\* The remote calls a handler issues before it awaits anything else, when each succeeds:
\* list: the folder query and the files query; share: the permissions query and one
\* permission per address (one address here); process: the download.
RemoteCallsOf(op) == IF op \in {"list", "share"} THEN 2 ELSE 1

\* Request bodies a caller of the process route can send: JSON values of any size
\* (volume in percent, times and fades in ms, speed in tenths).
RawBodies ==
    {[startTime |-> 0, endTime |-> 5000, volume |-> v, fadeIn |-> fi, fadeOut |-> fo,
      speed |-> sp, quality |-> "medium"] :
        v \in {100, 250}, fi \in {0, 15000}, fo \in {0, 12000}, sp \in {3, 10, 30}}

\* The body of a request whose handler reads none of the edit options.
NoBody == <<>>

\* A request to one of the routes, with or without the google_token cookie.  failsAt
\* is the remote call that fails (0: none).  The handler runs to its response, or,
\* in the process route, to the call of processVideo.
Request(op, token, body, failsAt) ==
    /\ failsAt \in 0 .. RemoteCallsOf(op)
    /\ api.calls + RemoteCallsOf(op) <= MaxRemoteCalls
    /\ IF NotAuthenticated(token)
       THEN /\ api' = [api EXCEPT !.request = [op |-> op, token |-> token],
                                  !.response = StatusNotAuthenticated]
            /\ UNCHANGED options
       ELSE LET issued == IF failsAt = 0 THEN RemoteCallsOf(op) ELSE failsAt
                failed == failsAt # 0 /\ ~(op = "share" /\ failsAt = 2)
            IN /\ api' = [request |-> [op |-> op, token |-> token],
                          calls |-> api.calls + issued,
                          response |-> IF failed THEN StatusFailed
                                       ELSE IF op = "process" THEN Pending ELSE StatusOk,
                          tempDir |-> api.tempDir \/ op = "process"]
               /\ options' = IF op = "process" /\ ~failed THEN <<body>> ELSE options
    /\ UNCHANGED <<args, qualityArgs, command, reinvoked, home, server>>
    /\ UNCHANGED <<duration, editOptions, currentTime, videoTime, reference>>
    /\ UNCHANGED timelineVars /\ UNCHANGED runVars

\* The process route after processVideo has resolved: the upload of the result and
\* the response.
ProcessFinish(uploaded) ==
    /\ api.request.op = "process" /\ api.response = Pending
    /\ options # <<>> /\ command = processVideo(options[1])
    /\ api.calls < MaxRemoteCalls
    /\ api' = [api EXCEPT !.calls = @ + 1,
                          !.response = IF uploaded THEN StatusOk ELSE StatusFailed]
    /\ UNCHANGED <<options, args, qualityArgs, command, reinvoked, home, server>>
    /\ UNCHANGED <<duration, editOptions, currentTime, videoTime, reference>>
    /\ UNCHANGED timelineVars /\ UNCHANGED runVars

\* ------------------------------------------- the process route, overlapping
\* Two POST requests to /api/videos/<id>/process for one id, each with a token.
ProcessRequests == {1, 2}

\* No request has arrived; temp/<id>/input.webm and temp/<id>/output.mp4 do not
\* exist.  input and output name the request whose bytes the file holds (0: no
\* file); read names the request whose output a request has read for its upload.
NoProcessRequest ==
    [pc |-> [r \in ProcessRequests |-> "none"], input |-> 0, output |-> 0,
     read |-> [r \in ProcessRequests |-> 0]]

\* A server step changes the server alone.
ServerFrame ==
    /\ UNCHANGED <<options, args, qualityArgs, command, reinvoked, api, home>>
    /\ UNCHANGED <<duration, editOptions, currentTime, videoTime, reference>>
    /\ UNCHANGED timelineVars /\ UNCHANGED runVars

\* POST: the token is present, the body is read, the directory is made and the
\* download from the remote service has answered.
ProcessPost(r) ==
    /\ server.pc[r] = "none"
    /\ server' = [server EXCEPT !.pc[r] = "writeFile"]
    /\ ServerFrame

\* writeFile(inputPath, ...) has resolved.
ProcessWriteInput(r) ==
    /\ server.pc[r] = "writeFile"
    /\ server' = [server EXCEPT !.input = r, !.pc[r] = "processVideo"]
    /\ ServerFrame

\* getVideoInfo, which falls back when ffprobe fails, and processVideo, which
\* rejects when the input file is missing and otherwise writes the output file.
ProcessRun(r) ==
    /\ server.pc[r] = "processVideo"
    /\ server' = IF server.input = 0
                  THEN [server EXCEPT !.pc[r] = "failed"]
                  ELSE [server EXCEPT !.output = r, !.pc[r] = "readFile"]
    /\ ServerFrame

\* fs.readFile(outputPath), which rejects when the file is missing.
ProcessReadOutput(r) ==
    /\ server.pc[r] = "readFile"
    /\ server' = IF server.output = 0
                  THEN [server EXCEPT !.pc[r] = "failed"]
                  ELSE [server EXCEPT !.read[r] = server.output, !.pc[r] = "upload"]
    /\ ServerFrame

\* The upload has answered: editor.cleanup([inputPath, outputPath]) and the
\* response; or it has failed, and the catch block answers 500 without cleanup.
ProcessRespond(r, uploaded) ==
    /\ server.pc[r] = "upload"
    /\ server' = IF uploaded
                  THEN [server EXCEPT !.input = 0, !.output = 0, !.pc[r] = "done"]
                  ELSE [server EXCEPT !.pc[r] = "failed"]
    /\ ServerFrame

NextServer ==
    \E r \in ProcessRequests :
        \/ ProcessPost(r)
        \/ ProcessWriteInput(r)
        \/ ProcessRun(r)
        \/ ProcessReadOutput(r)
        \/ \E uploaded \in BOOLEAN : ProcessRespond(r, uploaded)

\* ------------------------------------------------------------ Home, VideoList
\* The ids of the videos in the remote folder when the page is opened.
VideoIds == {"a", "b", "c"}

\* Home after mount: useState<Video[]>([]); VideoList: useState deletingId null.
\* remote is the content of the remote folder; outcome is, per video, how its last
\* delete request ended.
HomeMounted ==
    [videos |-> {}, deletingId |-> "null", inFlight |-> {}, remote |-> VideoIds,
     outcome |-> [id \in VideoIds |-> "none"]]

\* loadVideos, at mount and from the Refresh button: setVideos(data.videos).
loadVideos ==
    /\ home' = [home EXCEPT !.videos = home.remote]
    /\ UNCHANGED <<options, args, qualityArgs, command, reinvoked, api, server>>
    /\ UNCHANGED <<duration, editOptions, currentTime, videoTime, reference>>
    /\ UNCHANGED timelineVars /\ UNCHANGED runVars

\* The list a handleVideoDelete call stores when its request has succeeded:
\* videos.filter(v => v.id !== videoId), videos being the constant of the render in
\* which the call was made.
handleVideoDeleteList(call) == call.videos \ {call.id}

\* handleDelete(video) of VideoList, confirmed: setDeletingId and the call of
\* handleVideoDelete up to its fetch.  The button of a video is disabled while
\* deletingId is its id.
handleDelete(id) ==
    /\ id \in home.videos
    /\ id # home.deletingId
    /\ \A call \in home.inFlight : call.id # id
    /\ home' = [home EXCEPT !.deletingId = id,
                            !.inFlight = @ \cup {[id |-> id, videos |-> home.videos]}]
    /\ UNCHANGED <<options, args, qualityArgs, command, reinvoked, api, server>>
    /\ UNCHANGED <<duration, editOptions, currentTime, videoTime, reference>>
    /\ UNCHANGED timelineVars /\ UNCHANGED runVars

\* The fetch of a handleVideoDelete call ends: with response.ok the remote file is
\* gone and setVideos stores the filtered list; otherwise the failure is logged.
\* Then handleDelete continues with setDeletingId(null).
handleVideoDeleteEnds(id, ok) ==
    /\ \E call \in home.inFlight : call.id = id
    /\ LET call == CHOOSE c \in home.inFlight : c.id = id
       IN home' = [home EXCEPT
                     !.videos = IF ok THEN handleVideoDeleteList(call) ELSE @,
                     !.remote = IF ok THEN @ \ {id} ELSE @,
                     !.outcome[id] = IF ok THEN "deleted" ELSE "failed",
                     !.deletingId = "null",
                     !.inFlight = @ \ {call}]
    /\ UNCHANGED <<options, args, qualityArgs, command, reinvoked, api, server>>
    /\ UNCHANGED <<duration, editOptions, currentTime, videoTime, reference>>
    /\ UNCHANGED timelineVars /\ UNCHANGED runVars

NextHome ==
    \/ loadVideos
    \/ \E id \in VideoIds : handleDelete(id)
    \/ \E id \in VideoIds, ok \in BOOLEAN : handleVideoDeleteEnds(id, ok)

\* ---------------------------------------------------------- specification
Init ==
    /\ duration \in {0} \cup Durations
    /\ editOptions = DefaultEditOptions
    /\ currentTime = 0
    /\ videoTime = 0
    /\ isDragging = "none"
    /\ rafQueue = <<>>
    /\ buttonDown = FALSE
    /\ lastPointerEvent = "none"
    /\ ffmpegLoaded = FALSE
    /\ processing = [isProcessing |-> FALSE, progress |-> 0, stage |-> ""]
    /\ pc = "idle"
    /\ runs = <<>>
    /\ earlyRequests = 0
    /\ videoBlob = "null"
    /\ loading = TRUE
    /\ options = <<>>
    /\ args = <<>>
    /\ qualityArgs = <<>>
    /\ command = <<>>
    /\ reinvoked = [first |-> <<>>, again |-> FALSE]
    /\ api = NoRequest
    /\ home = HomeMounted
    /\ server = NoProcessRequest
    /\ reference = TrimRange(editOptions)

\* The editor without the engine's progress events and the fallback timer's ticks.
\* Those two actions change only runs and the progress and stage fields of
\* processing, which no action of NextEditor reads: every behaviour of Spec, seen on
\* the other variables and on processing.isProcessing, is a behaviour of SpecEditor.
NextEditor ==
    \/ \E h \in {"start", "end", "current"} : PointerDownHandle(h)
    \/ \E x \in TrackXs : PointerDownTrack(x)
    \/ \E x \in PointerXs : PointerMove(x)
    \/ \E inside \in BOOLEAN : PointerUp(inside)
    \/ AnimationFrame
    \/ TimeUpdate
    \/ \E x \in TrackXs : VideoAdvance(x)
    \/ \E d \in Durations : VideoLoaded(d)
    \/ ResetAll
    \/ LoadVideoEnds("media")
    \/ InitFFmpegDone
    \/ TrimVideoStart
    \/ WriteFileDone
    \/ ExecDone
    \/ AwaitDone
    \/ DeleteOutputDone
    \/ DelayDone
    \/ StepFails

\* The processing run with its progress tracker, the pointer left alone.
NextTracker ==
    \/ LoadVideoEnds("media")
    \/ InitFFmpegDone
    \/ TrimVideoStart
    \/ WriteFileDone
    \/ \E p \in EngineFractions : EngineProgress(p)
    \/ \E i \in 1..MaxRuns, inc \in TickIncrements : TimerTick(i, inc)
    \/ ExecDone
    \/ AwaitDone
    \/ DeleteOutputDone
    \/ DelayDone
    \/ StepFails

Next ==
    \/ NextEditor
    \/ EarlyRequest
    \/ \E p \in EngineFractions : EngineProgress(p)
    \/ \E i \in 1..MaxRuns, inc \in TickIncrements : TimerTick(i, inc)

Spec == Init /\ [][Next]_vars

SpecEditor == Init /\ [][NextEditor]_vars

SpecTracker == Init /\ [][NextTracker]_vars

\* The processing run among the user's actions, every awaited step of trimVideo
\* returning or throwing in the end.
AwaitedStepEnds ==
    WriteFileDone \/ ExecDone \/ AwaitDone \/ DeleteOutputDone \/ DelayDone \/ StepFails

NextSession ==
    \/ NextTracker
    \/ \E h \in {"start", "end", "current"} : PointerDownHandle(h)
    \/ \E inside \in BOOLEAN : PointerUp(inside)
    \/ \E d \in Durations : VideoLoaded(d)
    \/ ResetAll

SpecSession == Init /\ [][NextSession]_vars /\ WF_vars(AwaitedStepEnds)

\* The progress tracker of one run, started after an earlier run has completed, with
\* more of the increments Math.random() * 5 can give (0, 1.1 and 4.9).
EstimatorIncrements == {0, 11, 49}

InitEstimator ==
    /\ duration \in Durations
    /\ editOptions = DefaultEditOptions
    /\ currentTime = 0
    /\ videoTime = 0
    /\ isDragging = "none"
    /\ rafQueue = <<>>
    /\ buttonDown = FALSE
    /\ lastPointerEvent = "none"
    /\ ffmpegLoaded = TRUE
    /\ processing = [isProcessing |-> FALSE, progress |-> 0, stage |-> ""]
    /\ pc = "idle"
    /\ runs = <<[currentProgress |-> 200, interval |-> FALSE]>>
    /\ earlyRequests = 0
    /\ videoBlob = "media"
    /\ loading = FALSE
    /\ options = <<>>
    /\ args = <<>>
    /\ qualityArgs = <<>>
    /\ command = <<>>
    /\ reinvoked = [first |-> <<>>, again |-> FALSE]
    /\ api = NoRequest
    /\ home = HomeMounted
    /\ server = NoProcessRequest
    /\ reference = TrimRange(editOptions)

NextEstimator ==
    \/ TrimVideoStart
    \/ WriteFileDone
    \/ \E p \in EngineFractions : EngineProgress(p)
    \/ \E i \in 1..MaxRuns, inc \in EstimatorIncrements : TimerTick(i, inc)
    \/ ExecDone
    \/ AwaitDone
    \/ DeleteOutputDone
    \/ DelayDone
    \/ StepFails

SpecEstimator == InitEstimator /\ [][NextEstimator]_vars

\* The processing run with requests made before the engine is initialized.
\* The run with every way the download of the source can end.
NextLoad ==
    \/ \E outcome \in LoadOutcomes : LoadVideoEnds(outcome)
    \/ NextTracker
    \/ EarlyRequest

SpecLoad == Init /\ [][NextLoad]_vars

SpecServer == Init /\ [][NextServer]_vars

SpecHome == Init /\ [][NextHome]_vars

NextAdmission ==
    \/ NextTracker
    \/ EarlyRequest

SpecAdmission == Init /\ [][NextAdmission]_vars

\* The translators on every edit record of the bounded input sets.
InitTranslator ==
    /\ duration \in TranslatorDurations
    /\ editOptions \in {[startTime |-> r[1], endTime |-> r[2], volume |-> v, fadeIn |-> fi,
                         fadeOut |-> fo, speed |-> sp, quality |-> q] :
                           r \in TrimRanges, v \in Volumes, fi \in FadeIns, fo \in FadeOuts,
                           sp \in Speeds, q \in Qualities}
    /\ currentTime = 0
    /\ videoTime = 0
    /\ isDragging = "none"
    /\ rafQueue = <<>>
    /\ buttonDown = FALSE
    /\ lastPointerEvent = "none"
    /\ ffmpegLoaded = TRUE
    /\ processing = [isProcessing |-> FALSE, progress |-> 0, stage |-> ""]
    /\ pc = "idle"
    /\ runs = <<>>
    /\ earlyRequests = 0
    /\ videoBlob = "media"
    /\ loading = FALSE
    /\ options = <<>>
    /\ args = <<>>
    /\ qualityArgs = <<>>
    /\ command = <<>>
    /\ reinvoked = [first |-> <<>>, again |-> FALSE]
    /\ api = NoRequest
    /\ home = HomeMounted
    /\ server = NoProcessRequest
    /\ reference = TrimRange(editOptions)

NextTranslator ==
    \/ BuildArgs
    \/ BuildQualityArgs
    \/ PostProcess
    \/ ProcessVideo

SpecTranslator == InitTranslator /\ [][NextTranslator]_vars

\* The translators invoked again and again in a session with processing runs: between
\* two invocations runs start, fail and complete, the engine reports and the timer
\* draws its random increments.
RerunRecords ==
    {[startTime |-> 25000, endTime |-> 75000, volume |-> 150, fadeIn |-> 2000,
      fadeOut |-> 5000, speed |-> 5, quality |-> "high"]}

InitRerun ==
    /\ duration = 120000
    /\ editOptions \in RerunRecords
    /\ currentTime = 0
    /\ videoTime = 0
    /\ isDragging = "none"
    /\ rafQueue = <<>>
    /\ buttonDown = FALSE
    /\ lastPointerEvent = "none"
    /\ ffmpegLoaded = FALSE
    /\ processing = [isProcessing |-> FALSE, progress |-> 0, stage |-> ""]
    /\ pc = "idle"
    /\ runs = <<>>
    /\ earlyRequests = 0
    /\ videoBlob = "null"
    /\ loading = TRUE
    /\ options = <<>>
    /\ args = <<>>
    /\ qualityArgs = <<>>
    /\ command = <<>>
    /\ reinvoked = [first |-> <<>>, again |-> FALSE]
    /\ api = NoRequest
    /\ home = HomeMounted
    /\ server = NoProcessRequest
    /\ reference = TrimRange(editOptions)

NextRerun == NextTracker \/ NextTranslator

SpecRerun == InitRerun /\ [][NextRerun]_vars

\* Drags of the Start and End handles on a loaded video: pointer events and animation
\* frames alone, with bursts of up to MaxBurst moves between two frames.
InitDrag ==
    /\ duration \in Durations
    /\ editOptions = DefaultEditOptions
    /\ currentTime = 0
    /\ videoTime = 0
    /\ isDragging = "none"
    /\ rafQueue = <<>>
    /\ buttonDown = FALSE
    /\ lastPointerEvent = "none"
    /\ ffmpegLoaded = TRUE
    /\ processing = [isProcessing |-> FALSE, progress |-> 0, stage |-> ""]
    /\ pc = "idle"
    /\ runs = <<>>
    /\ earlyRequests = 0
    /\ videoBlob = "media"
    /\ loading = FALSE
    /\ options = <<>>
    /\ args = <<>>
    /\ qualityArgs = <<>>
    /\ command = <<>>
    /\ reinvoked = [first |-> <<>>, again |-> FALSE]
    /\ api = NoRequest
    /\ home = HomeMounted
    /\ server = NoProcessRequest
    /\ reference = TrimRange(editOptions)

NextDrag ==
    \/ \E handle \in {"start", "end"} : PointerDownHandle(handle)
    \/ \E x \in PointerXs : PointerMoveBounded(x, MaxBurst)
    \/ \E inside \in BOOLEAN : PointerUp(inside)
    \/ AnimationFrame

SpecDrag == InitDrag /\ [][NextDrag]_vars

\* The conversions between percentages and times, on the percentages the inputs can
\* store and on short and long videos.
RoundTripPcts == {1000 * n : n \in 0 .. 100} \cup {1, 333, 33333, 66667, 99999}
RoundTripDurations == {100, 20000, 120000, 1800000}

InitConvert ==
    /\ duration \in RoundTripDurations
    /\ editOptions = DefaultEditOptions
    /\ currentTime = 0
    /\ videoTime = 0
    /\ isDragging = "none"
    /\ rafQueue = <<>>
    /\ buttonDown = FALSE
    /\ lastPointerEvent = "none"
    /\ ffmpegLoaded = FALSE
    /\ processing = [isProcessing |-> FALSE, progress |-> 0, stage |-> ""]
    /\ pc = "idle"
    /\ runs = <<>>
    /\ earlyRequests = 0
    /\ videoBlob = "media"
    /\ loading = FALSE
    /\ options = <<>>
    /\ args = <<>>
    /\ qualityArgs = <<>>
    /\ command = <<>>
    /\ reinvoked = [first |-> <<>>, again |-> FALSE]
    /\ api = NoRequest
    /\ home = HomeMounted
    /\ server = NoProcessRequest
    /\ reference = TrimRange(editOptions)

NextConvert ==
    \E option \in {"startTime", "endTime"}, value \in RoundTripPcts :
        HandleOptionChange(option, value)

SpecConvert == InitConvert /\ [][NextConvert]_vars

\* The API routes, called with any cookie and any body, and the translator behind
\* the process route.
NextApi ==
    \/ \E op \in ApiOps \ {"process"}, token \in BOOLEAN, failsAt \in 0 .. 2 :
          Request(op, token, NoBody, failsAt)
    \/ \E token \in BOOLEAN, body \in RawBodies, failsAt \in 0 .. 1 :
          Request("process", token, body, failsAt)
    \/ ProcessVideo
    \/ \E uploaded \in BOOLEAN : ProcessFinish(uploaded)

\* The routes serve an editor whose video is loaded.
InitApi == InitDrag

SpecApi == InitApi /\ [][NextApi]_vars

\* ------------------------------------------------------------------ C1 - C5
\* The trim range as the session holds it, and as the times the Timeline is given.
startPct == editOptions.startTime
endPct == editOptions.endTime
startSec == startTimeProp(editOptions, duration)
endSec == endTimeProp(editOptions, duration)

\* C1: in every state reachable by pointer-down, pointer-move, pointer-up and
\* track-click events (moves and releases outside the track included) the trim
\* range satisfies 0 <= startPct < endPct <= 100.
C1_TrimRangeOrdered ==
    /\ IsNumber(startPct) /\ IsNumber(endPct)
    /\ 0 <= startPct /\ startPct < endPct /\ endPct <= Pct100

\* C2: once a trim range exists (the duration is known and the range is a pair of
\* numbers), the displayed playhead lies inside the selection in every reachable
\* state: startSec <= playhead <= endSec.
C2_PlayheadInsideSelection ==
    (duration > 0 /\ IsNumber(startPct) /\ IsNumber(endPct))
        => (startSec <= currentTime /\ currentTime <= endSec)

\* C3: within one processing run (from the start of trimVideo to its last update,
\* the reset after completion or failure excluded) no step lowers the progress
\* value shown, whatever the interleaving of engine progress events, timer ticks
\* and the run's own stage updates.
C3_ProgressNonDecreasing ==
    [][(processing.isProcessing /\ processing'.isProcessing)
          => processing'.progress >= processing.progress]_vars

\* C4: no drag is active while the pointer button is released: every pointer-up,
\* inside the track or anywhere else in the document, has returned the timeline to
\* Idle, and nothing makes a drag active again before the next pointer-down.
C4_ReleaseEndsDrag == ~buttonDown => isDragging = "none"

\* A drag of a handle was released outside the track, with a callback of the drag
\* still pending.
C4_Witness ==
    /\ lastPointerEvent = "upOutside"
    /\ ~buttonDown
    /\ isDragging = "none"
    /\ rafQueue # <<>>

\* C5: while the timeline is disabled no drag is active (a drag that was active when
\* the timeline became disabled has ended), so that no pointer move is handled.
C5_DisabledEndsDrag == disabled => isDragging = "none"

\* ----------------------------------------------------------------- C6 - C10
\* The operation an element of an argument list or of a command stands for: the
\* seek and length of the trim, the operation of the filters it carries, the
\* quality options of the encode; "none" for the input, the codec names, the
\* timestamp flag and the output.
OperationOf(a) ==
    IF a.flag \in {"-ss", "-t", "seekInput", "duration"} THEN "trim"
    ELSE IF a.filters # <<>>
         THEN (CASE a.filters[1].name = "volume" -> "volume"
                 [] a.filters[1].name \in {"fade=t=in", "fade=t=out"} -> "fade"
                 [] a.filters[1].name \in {"setpts", "atempo"} -> "speed")
    ELSE IF a.flag \in {"-crf", "-preset fast", "-preset medium", "-preset slow",
                        "-movflags +faststart"} THEN "encode"
    ELSE "none"

\* The place of an operation in the order trim, volume, fade, speed, encode.
PlaceOf(op) ==
    CASE op = "trim" -> 1 [] op = "volume" -> 2 [] op = "fade" -> 3
      [] op = "speed" -> 4 [] op = "encode" -> 5

\* The operations of a sequence appear in the order trim, volume, fade, speed, encode.
InFixedOrder(seq) ==
    \A i, j \in 1..Len(seq) :
        (i < j /\ OperationOf(seq[i]) # "none" /\ OperationOf(seq[j]) # "none")
            => PlaceOf(OperationOf(seq[i])) <= PlaceOf(OperationOf(seq[j]))

\* The filters of the given name in a sequence, as the set of <<element, filter>> places.
FiltersNamed(seq, name) ==
    {pl \in {<<i, k>> : i \in 1..Len(seq), k \in 1..2} :
        pl[2] <= Len(seq[pl[1]].filters) /\ seq[pl[1]].filters[pl[2]].name = name}

FilterAt(seq, pl) == seq[pl[1]].filters[pl[2]]

\* The record the translator in the browser reads, with its trimmed duration, and
\* the record the translator on the server reads, with its trimmed duration.
trimmedDuration == TimeOf(editOptions.endTime, duration) - TimeOf(editOptions.startTime, duration)
postedDuration == options[1].endTime - options[1].startTime

\* C6: the operations of every sequence handed to an engine appear in the fixed
\* order trim, volume, fade, speed, encode.
C6_FixedOperationOrder == InFixedOrder(args) /\ InFixedOrder(command)

\* C7: a fade-out that is emitted starts at trimmedDuration - fadeOutSec, on the
\* trimmed timeline (stated for fades that fit into the trimmed duration).
C7_FadeOutOnTrimmedTimeline ==
    /\ \A pl \in FiltersNamed(args, "fade=t=out") :
          editOptions.fadeOut <= trimmedDuration
              => FilterAt(args, pl).st = trimmedDuration - editOptions.fadeOut
    /\ \A pl \in FiltersNamed(command, "fade=t=out") :
          options[1].fadeOut <= postedDuration
              => FilterAt(command, pl).st = postedDuration - options[1].fadeOut

\* C8: no fade-out is emitted with a negative start offset; a fade-out longer than
\* the trimmed duration starts at 0.
C8_FadeOutOffsetNotNegative ==
    /\ \A pl \in FiltersNamed(args, "fade=t=out") :
          /\ FilterAt(args, pl).st >= 0
          /\ editOptions.fadeOut > trimmedDuration => FilterAt(args, pl).st = 0
    /\ \A pl \in FiltersNamed(command, "fade=t=out") : FilterAt(command, pl).st >= 0
    /\ (options # <<>> /\ options[1].startTime < options[1].endTime) =>
          \A k \in DOMAIN applyFadeEffects(options[1].fadeIn, options[1].fadeOut, postedDuration) :
              applyFadeEffects(options[1].fadeIn, options[1].fadeOut, postedDuration)[k].st >= 0

\* The two rescalings of a speed change in a sequence built from a record of speed sp
\* (in tenths): both present, with factors 1/speed and speed, when the speed is not
\* 1.0, and both absent when it is.
SpeedCoupled(seq, sp) ==
    IF sp # 10
    THEN /\ Cardinality(FiltersNamed(seq, "setpts")) = 1
         /\ Cardinality(FiltersNamed(seq, "atempo")) = 1
         /\ \A pl \in FiltersNamed(seq, "setpts") :
               FilterAt(seq, pl).factor[1] * sp = FilterAt(seq, pl).factor[2] * 10
         /\ \A pl \in FiltersNamed(seq, "atempo") :
               FilterAt(seq, pl).factor[1] * 10 = FilterAt(seq, pl).factor[2] * sp
    ELSE FiltersNamed(seq, "setpts") = {} /\ FiltersNamed(seq, "atempo") = {}

\* C9: the video timestamp rescaling and the audio tempo rescaling are both emitted
\* or both absent, in every sequence handed to an engine.
C9_SpeedRescalingsCoupled ==
    /\ args # <<>> => SpeedCoupled(args, editOptions.speed)
    /\ command # <<>> => SpeedCoupled(command, options[1].speed)

\* The volume operation of a sequence built from a record of volume v (in percent):
\* exactly one, of factor v / 100, when v is not 100, and none when it is.
VolumeEmitted(seq, v) ==
    IF v # 100
    THEN /\ Cardinality(FiltersNamed(seq, "volume")) = 1
         /\ \A pl \in FiltersNamed(seq, "volume") :
               FilterAt(seq, pl).factor[1] * 100 = FilterAt(seq, pl).factor[2] * v
    ELSE FiltersNamed(seq, "volume") = {}

\* C10: a volume operation is emitted if and only if volumePct differs from 100,
\* and its factor is volumePct / 100.
C10_VolumeIffNot100 ==
    /\ args # <<>> => VolumeEmitted(args, editOptions.volume)
    /\ command # <<>> => VolumeEmitted(command, options[1].volume)

\* Both translators have run on a record of volume 150 and emitted the factor 3/2.
C10_Witness ==
    /\ editOptions.volume = 150
    /\ \E pl \in FiltersNamed(args, "volume") : FilterAt(args, pl).factor = <<3, 2>>
    /\ \E pl \in FiltersNamed(command, "volume") : FilterAt(command, pl).factor = <<3, 2>>

\* ---------------------------------------------------------------- C11 - C13
\* The values of the elements of a sequence that carry one of the given flags.
ValuesOf(seq, flags) == [i \in {k \in 1..Len(seq) : seq[k].flag \in flags} |-> seq[i].value]

\* A sequence holds exactly one seek, to startSec, and exactly one length, durationSec.
TrimEmitted(seq, seekFlag, lengthFlag, start, len) ==
    /\ Cardinality(DOMAIN ValuesOf(seq, {seekFlag})) = 1
    /\ Cardinality(DOMAIN ValuesOf(seq, {lengthFlag})) = 1
    /\ \A i \in DOMAIN ValuesOf(seq, {seekFlag}) : seq[i].value = start
    /\ \A i \in DOMAIN ValuesOf(seq, {lengthFlag}) : seq[i].value = len

CompressionFactor(q) == CASE q = "low" -> 28 [] q = "medium" -> 23 [] q = "high" -> 18
EffortFlag(q) ==
    CASE q = "low" -> "-preset fast" [] q = "medium" -> "-preset medium"
      [] q = "high" -> "-preset slow"

\* The places of a sequence that carry the given flag.
PlacesOf(seq, flag) == {i \in 1..Len(seq) : seq[i].flag = flag}

\* A sequence built from a record of quality q holds the encode operation - the
\* compression factor and the effort of q, and the instruction to place the metadata
\* at the front - and no other operation follows any part of it.
EncodeEmittedLast(seq, q) ==
    /\ Cardinality(PlacesOf(seq, "-crf")) = 1
    /\ \A i \in PlacesOf(seq, "-crf") : seq[i].value = CompressionFactor(q)
    /\ Cardinality(PlacesOf(seq, EffortFlag(q))) = 1
    /\ Cardinality(PlacesOf(seq, "-movflags +faststart")) = 1
    /\ \A i, j \in 1..Len(seq) :
          (i < j /\ OperationOf(seq[i]) = "encode")
              => OperationOf(seq[j]) \in {"encode", "none"}

\* C12: for every edit record the encode operation is emitted, is the last
\* operation, and carries the pair of the selected quality and the instruction to
\* place metadata at the front of the container.
C12_EncodeEmittedLast ==
    /\ command # <<>> => EncodeEmittedLast(command, options[1].quality)
    /\ qualityArgs # <<>> => EncodeEmittedLast(qualityArgs, editOptions.quality)
    /\ args # <<>> => EncodeEmittedLast(args, editOptions.quality)

C14_BurstConverges ==
    (rafQueue = <<>> /\ lastPointerEvent \in {"up", "upOutside"})
        => TrimRange(editOptions) = reference

\* The handles whose deferred updates are pending.
PendingHandles == {rafQueue[i].handle : i \in 1 .. Len(rafQueue)}

\* The minimum selectable duration holds for the handle in the edit record ed.
MinimumKept(handle, ed, dur) ==
    LET s == startTimeProp(ed, dur)
        e == endTimeProp(ed, dur)
    IN /\ IsNumber(s) /\ IsNumber(e)
       /\ IF handle = "start" THEN 0 <= s /\ s <= e - MinGapMs
          ELSE s + MinGapMs <= e /\ e <= dur

\* C15: a step that applies the deferred updates of a Start drag leaves the start in
\* [0, endSec - minSelectableSec], and one that applies those of an End drag leaves
\* the end in [startSec + minSelectableSec, duration], with endSec and startSec the
\* values current once the updates are applied (minSelectableSec is the Timeline's
\* 0.1 s, the smaller of the two gaps the code uses).
C15_MinimumSelection ==
    [][(rafQueue # <<>> /\ rafQueue' = <<>>)
          => \A handle \in PendingHandles : MinimumKept(handle, editOptions', duration')]_vars

\* C16: a step of trimVideo that ends the run by a failure (an awaited step is left
\* for "idle") sets isProcessing = false, progress = 0 and the stage 'Error occurred',
\* leaves the Trim Video button enabled and starts no further run; and whenever no
\* trimVideo call is in flight isProcessing is false.
C16_FailureResets ==
    /\ [](pc = "idle" => ~processing.isProcessing)
    /\ [][(pc \in AwaitedSteps /\ pc' = "idle")
            => /\ processing' = [isProcessing |-> FALSE, progress |-> 0,
                                 stage |-> "Error occurred"]
               /\ TrimVideoEnabled'
               /\ runs' = runs]_vars

\* A run has failed while the engine was executing: its interval is still set, no
\* call is in flight and the catch block's state is shown.
C16_Witness ==
    /\ pc = "idle"
    /\ runs # <<>> /\ runs[Len(runs)].interval
    /\ processing.stage = "Error occurred"
    /\ ~processing.isProcessing /\ processing.progress = 0

\* C17: once ffmpeg.exec and ffmpeg.readFile of a run have resolved, the processing
\* state is reset to not-processing only after the step that sets progress = 100 with
\* the stage 'Complete!', and that step sets exactly these.
C17_CompleteBeforeReset ==
    [][/\ (pc # "delay" /\ pc' = "delay")
            => (processing'.progress = 100 /\ processing'.stage = "Complete!")
       /\ (pc \in {"deleteInput", "deleteOutput", "delay"}
              /\ processing.isProcessing /\ ~processing'.isProcessing)
            => pc = "delay"]_vars

\* C18: whenever a trimVideo call is in flight isProcessing is true, and while
\* isProcessing is true no step starts a run (none enters trimVideo's first awaited
\* step): the Trim Video and Re-process Video buttons cannot start a second run.
C18_OneRunInFlight ==
    /\ [](pc # "idle" => processing.isProcessing)
    /\ [][processing.isProcessing => ~(pc # "writeFile" /\ pc' = "writeFile")]_vars

\* A run is executing in an initialized engine and the session could start another
\* run as far as the bound on runs goes: only the buttons' guard stands in the way.
C18_Witness ==
    /\ processing.isProcessing /\ pc = "exec"
    /\ ffmpegLoaded /\ Len(runs) = 1 /\ Len(runs) < MaxRuns

\* C19: while the engine is not initialized no step changes the processing state or
\* puts a trimVideo call in flight, a process request included; and the step that
\* completes the initialization starts no run either.
C19_EarlyRequestDropped ==
    [][~ffmpegLoaded => (processing' = processing /\ pc' = pc /\ runs' = runs)]_vars

\* A request was made before the engine was initialized, the engine is initialized
\* now, and no run has begun.
C19_Witness ==
    /\ earlyRequests > 0 /\ ffmpegLoaded
    /\ pc = "idle" /\ runs = <<>>
    /\ processing = [isProcessing |-> FALSE, progress |-> 0, stage |-> ""]

\* C20: an operation sequence reaches the engine only for a trim range with
\* startPct < endPct: whenever processVideo has built its command, the posted range
\* is not empty (a request with startPct >= endPct is refused before).
C20_EmptyRangeRefused ==
    command # <<>> => options[1].startTime < options[1].endTime

\* C21: every volume, fade-in, fade-out and speed value that processVideo has
\* translated lies in [0, 200], [0, 10] s, [0, 10] s and [0.5, 2.0].
C21_EffectsInRange ==
    command # <<>>
        => /\ options[1].volume \in 0 .. 200
           /\ options[1].fadeIn \in 0 .. 10000
           /\ options[1].fadeOut \in 0 .. 10000
           /\ options[1].speed \in 5 .. 20

Distance(a, b) == IF a >= b THEN a - b ELSE b - a

\* The tolerance of the round trip at the resolution the times and percentages are
\* kept in: one millisecond as a percentage of the duration, plus one thousandth of
\* a percent.
Tolerance(dur) == 1000 \div (dur \div 100) + 1

\* A percentage converted to a time (the startTime/endTime props) and back to a
\* percentage (getPositionFromTime) is the percentage, within the tolerance.
RoundTrips(pct, dur) ==
    Distance(getPositionFromTime(TimeOf(pct, dur), dur), pct) <= Tolerance(dur)

\* C22: for every pct in [0, 100] and every duration > 0,
\* toPct(toSec(pct, duration), duration) = pct within the tolerance.
C22_RoundTrip ==
    duration > 0 => (RoundTrips(startPct, duration) /\ RoundTrips(endPct, duration))

\* Both percentages have been set to values that are no whole seconds of a video of
\* two minutes.
C22_Witness ==
    duration = 120000 /\ startPct = 33333 /\ endPct = 66667

\* The positions the Timeline computes for its handles and its playhead marker.
startPosition == getPositionFromTime(startSec, duration)
endPosition == getPositionFromTime(endSec, duration)
currentPosition == getPositionFromTime(currentTime, duration)

\* C23: with the duration 0 the start, end and playhead positions are 0 and no drag
\* is active.
C23_ZeroDurationInert ==
    duration = 0
        => /\ startPosition = 0 /\ endPosition = 0 /\ currentPosition = 0
           /\ isDragging = "none"

C26_EstimatorBelow90 ==
    (pc = "exec" /\ processing.progress >= 90)
        => \E p \in EngineFractions : progressPercent(p) = processing.progress

\* C27: a pointer-down on the start handle, the end handle or the playhead marker
\* starts a drag of that handle when the timeline is not disabled and leaves the
\* timeline idle when it is disabled; no step starts a drag of a disabled timeline.
C27_DragStartsWhenEnabled ==
    [][/\ \A handle \in {"start", "end", "current"} :
             PointerDownHandle(handle)
                 => IF disabled THEN isDragging' = "none" ELSE isDragging' = handle
       /\ (isDragging = "none" /\ isDragging' # "none") => ~disabled]_vars

\* A pointer-down on a handle of a disabled timeline has left the timeline idle.
C27_Witness ==
    /\ lastPointerEvent = "down"
    /\ buttonDown
    /\ isDragging = "none"
    /\ disabled

\* C28: after a frame has applied one update of the start handle, a playhead that
\* was before the new start is at the new start; after one update of the end handle,
\* a playhead that was after the new end is at the new end.
C28_PlayheadFollowsTrim ==
    [][(AnimationFrame /\ Len(rafQueue) = 1)
          => LET newStart == TimeOf(editOptions'.startTime, duration')
                 newEnd == TimeOf(editOptions'.endTime, duration')
             IN /\ (rafQueue[1].handle = "start" /\ JsLt(videoTime, newStart))
                       => videoTime' = newStart
                /\ (rafQueue[1].handle = "end" /\ JsLt(newEnd, videoTime))
                       => videoTime' = newEnd]_vars

\* The trim range is an interval: both ends are numbers and the start is not after
\* the end.
TrimRangeIsInterval ==
    /\ IsNumber(editOptions.startTime)
    /\ IsNumber(editOptions.endTime)
    /\ editOptions.startTime <= editOptions.endTime

\* C29: a pointer-move while the playhead is dragged leaves the trim range, the
\* duration and the drag as they are; when the trim range is an interval it puts the
\* playhead and the media position at one time between the start and the end of the
\* range, and when an end of the range is not a number the seek throws and the
\* playhead stays.
C29_PlayheadDragFrame ==
    [][(isDragging = "current" /\ \E x \in PointerXs : PointerMove(x))
          => /\ editOptions' = editOptions
             /\ duration' = duration
             /\ isDragging' = "current"
             /\ TrimRangeIsInterval
                   => /\ currentTime' = videoTime'
                      /\ startTimeProp(editOptions, duration) <= currentTime'
                      /\ currentTime' <= endTimeProp(editOptions, duration)
             /\ (~IsNumber(editOptions.startTime) \/ ~IsNumber(editOptions.endTime))
                   => UNCHANGED <<currentTime, videoTime>>]_vars

\* The playhead is dragged, no update of the trim range is pending, and the last
\* pointer-move has left the playhead and the media position at the start of a trim
\* range that does not begin at 0.
C29_Witness ==
    /\ isDragging = "current"
    /\ lastPointerEvent = "move"
    /\ rafQueue = <<>>
    /\ IsNumber(editOptions.startTime)
    /\ editOptions.startTime > 0
    /\ currentTime = startTimeProp(editOptions, duration)
    /\ videoTime = currentTime

\* C30: a pointer-down on the track body of an idle, enabled timeline whose trim
\* range is an interval puts the playhead and the media position at the time
\* of the pointer, or at the start or the end of the trim range when that time lies
\* outside it; a pointer-down on a handle or on the playhead marker moves neither.
C30_TrackClickSeeks ==
    [][/\ \A x \in TrackXs :
             (/\ PointerDownTrack(x)
              /\ ~disabled
              /\ isDragging = "none"
              /\ TrimRangeIsInterval)
                 => LET time == getTimeFromPosition(x, duration)
                        rangeStart == startTimeProp(editOptions, duration)
                        rangeEnd == endTimeProp(editOptions, duration)
                    IN /\ currentTime' = IF time < rangeStart THEN rangeStart
                                         ELSE IF time > rangeEnd THEN rangeEnd ELSE time
                       /\ videoTime' = currentTime'
                       /\ editOptions' = editOptions
       /\ (\E handle \in {"start", "end", "current"} : PointerDownHandle(handle))
             => UNCHANGED <<currentTime, videoTime>>]_vars

\* A pointer-down on the track left of the trim range has put the playhead and the
\* media position at the start of the range.
C30_Witness ==
    /\ lastPointerEvent = "click"
    /\ buttonDown
    /\ isDragging = "none"
    /\ ~disabled
    /\ rafQueue = <<>>
    /\ IsNumber(editOptions.startTime)
    /\ editOptions.startTime > 0
    /\ currentTime = startTimeProp(editOptions, duration)
    /\ videoTime = currentTime

\* C31: a frame applies the deferred updates of the start or the end handle only
\* while the pointer-move that deferred them is still the last pointer event: no
\* update is applied after a later pointer-up, click or pointer-down.
C31_EventOrder ==
    [][AnimationFrame => lastPointerEvent = "move"]_vars

\* C32: when the download of the source has failed, by a rejection or by an error
\* response, no run is in flight: trimVideo is never past its first test with
\* anything but the media in videoBlob.
C32_NoRunOnFailedDownload ==
    (~loading /\ videoBlob # "media") => (pc = "idle" /\ ~processing.isProcessing)

\* The positions of the argument list that carry one of the given options.
OptionsIn(list, flags) == {i \in DOMAIN list : list[i].flag \in flags}

\* C33: the argument list trimVideo builds holds at most one video-filter option
\* ('-vf' and '-filter:v' name the same option) and at most one audio-filter option.
C33_OneFilterChain ==
    /\ Cardinality(OptionsIn(args, {"-vf", "-filter:v"})) <= 1
    /\ Cardinality(OptionsIn(args, {"-af", "-filter:a"})) <= 1

\* C34: once a run has ended, by completion or by failure, and while no other run
\* has been started, no step changes the processing state: no timer of an ended
\* run is left to tick.
C34_TimerStopped ==
    [][(pc = "idle" /\ pc' = "idle" /\ runs # <<>>) => processing' = processing]_vars

\* C35: while a run awaits the engine, every change of the processing state shows
\* the progress of that run, the value of its own currentProgress as its listener
\* or its timer shows it: nothing registered by an earlier run changes it.
C35_OwnRunOnly ==
    [][(pc = "exec" /\ pc' = "exec" /\ processing' # processing)
          => processing'.progress \in {RoundTenths(runs'[Len(runs')].currentProgress),
                                       roundedProgress(runs'[Len(runs')].currentProgress)}]_vars

\* C36: when no delete request is in flight, every video whose last delete request
\* succeeded is absent from the displayed list and every video whose last delete
\* request failed is in it.
C36_ListMatchesDeletes ==
    home.inFlight = {}
        => \A id \in VideoIds :
              /\ home.outcome[id] = "deleted" => id \notin home.videos
              /\ home.outcome[id] = "failed" => id \in home.videos

\* C37: of two overlapping process requests for one id, each works on its own
\* files: the output a request reads for its upload is the one it has written, and
\* no request fails because a file it was using has been deleted.
C37_RequestsIsolated ==
    \A r \in ProcessRequests :
        /\ server.read[r] \in {0, r}
        /\ server.pc[r] = "readFile" => server.output = r
        /\ server.pc[r] = "processVideo" => server.input = r
====
